---------------------------- MODULE Spec2Model ----------------------------
(***************************************************************************)
(* Real-time order management: the client-side AdvancedCache and           *)
(* useOptimisticUpdates hook (order-ui/src/hooks/useAdvancedFeatures.ts)   *)
(* and the server-side WebSocketService                                    *)
(* (order-service/src/services/websocketService.ts).                       *)
(*                                                                         *)
(* Eight specifications share the module:                                  *)
(*   SpecCache  one AdvancedCache instance and a clock, used through       *)
(*              set/get/has/delete/clear/getAllKeys/import;                *)
(*   SpecSnap   one AdvancedCache instance whose export() is imported into *)
(*              a second, fresh instance;                                  *)
(*   SpecOpt    one useOptimisticUpdates hook instance with its in-flight  *)
(*              server operations;                                         *)
(*   SpecOptLive the same hook when every server operation settles;        *)
(*   SpecWs     one WebSocketService with its socket.io rooms;             *)
(*   SpecServer the server as server.ts starts it: OrderService calls and  *)
(*              socket clients;                                            *)
(*   SpecFeed   the notifications and orderUpdates lists of useWebSocket;  *)
(*   SpecHook   one useWebSocket hook with its sockets and retry timers.   *)
(***************************************************************************)
EXTENDS Integers, Sequences, FiniteSets, TLC

VARIABLES
    \* ---- AdvancedCache ----
    now,          \* Date.now()
    cache,        \* this.cache : Map<string, CacheItem>
    accessOrder,  \* this.accessOrder : Set<string>, in insertion order
    ret,          \* what the last public call returned
    op,           \* the last public call: [name, key, path]
    evicted,      \* the key set() removed as lruKey in the last call, or NoKey
    snapshot,     \* the Record the last export() returned
    cache2,       \* the entry map of a fresh instance after import(snapshot)
    touchGS,      \* history: keys by their last successful get or set
    touchGSI,     \* history: keys by their last successful get, set or import
    srcAtExport,  \* history: the non-expired entries of the cache at export()
    ops,          \* number of public calls made on the cache
    \* ---- useOptimisticUpdates ----
    data,                 \* the hook's state `data` (what updaters see as prev)
    rendered,             \* `data` as captured by the callbacks of the last render
    optimisticOperations, \* Map<string, {type, originalData, newData}>
    inflight,             \* dispatched serverOperation promises not yet settled
    unhandled,            \* rejections re-thrown inside .catch(): nobody holds them
    callerErrors,         \* errors the caller of optimistic* could observe
    settled,              \* the last settlement, with what held at its call
    calls,                \* number of optimistic* calls made
    \* ---- WebSocketService ----
    sockets,        \* each socket id: "new", "open" or "closed"
    rooms,          \* socket.io adapter: room name -> set of socket ids
    connectedUsers, \* keys of this.connectedUsers
    userSessions,   \* this.userSessions : socket id -> userId
    delivered,      \* the messages the last step sent: [to, event, orderId]
    wsOp,           \* the last server-side step: [name, orderId]
    joined,         \* history: order ids each socket joined and has not left
    authed,         \* history: sockets that authenticated and are still open
    closedFrom,     \* history: the rooms a socket was in when it closed
    missed,         \* history: sockets outside authenticated_users at a broadcast
    \* ---- OrderService (server) ----
    orders,         \* dataStore.orders: the ids of the stored orders
    eventListeners, \* this.eventListeners : event name -> listeners
    \* ---- useWebSocket: the lists fed by received messages ----
    notifications,  \* state `notifications`, items named by arrival number
    orderUpdates,   \* state `orderUpdates`, items <<message number, index>>
    feedN,          \* number of notification messages received
    feedU,          \* number of order_update / bulk_order_update messages received
    \* ---- useWebSocket: the connection ----
    connectionState, \* state `connectionState` (what updaters see as prev)
    hSocket,         \* state `socket`: index into cSockets, 0 for null
    hRendered,       \* connectionState and socket as captured by the last render
    hDirty,          \* "none", or who queued state the last render has not seen
    cSockets,        \* the sockets io() created: [status, n, fails, buffer]
    timers,          \* pending setTimeout callbacks: [kind, n, delay, inRef]
    sent,            \* the messages the last step put on the wire to the server
    hOp,             \* the last step of the hook: [name, arg]
    scheduled,       \* history: delays of the retries connect_error scheduled
    terminal,        \* history: the terminal error toast was raised
    userClosed,      \* history: disconnect() was called, no connect() call since
    everConnected,   \* history: some socket has connected
    uiConnects,      \* history: connect() calls by UI code (2 stands for more)
    hSteps           \* number of UI calls, socket events and timer callbacks run

cacheVars == <<now, cache, accessOrder, ret, op, evicted, snapshot, cache2,
               touchGS, touchGSI, srcAtExport, ops>>
optVars == <<data, rendered, optimisticOperations, inflight, unhandled,
             callerErrors, settled, calls>>
wsVars == <<sockets, rooms, connectedUsers, userSessions, delivered, wsOp,
            joined, authed, closedFrom, missed>>
svcVars == <<orders, eventListeners>>
feedVars == <<notifications, orderUpdates, feedN, feedU>>
hookVars == <<connectionState, hSocket, hRendered, hDirty, cSockets, timers,
              sent, hOp, scheduled, terminal, userClosed, everConnected,
              uiConnects, hSteps>>
restVars == <<svcVars, feedVars, hookVars>>
vars == <<cacheVars, optVars, wsVars, restVars>>

----------------------------------------------------------------------------
(* Bounds *)

MaxTime == 3
MaxOps == 4
MaxSize == 2
MaxAge == 2

Keys == {"", "a", "b"}
ProtoKey == "__proto__"
Values == {"v1", "v2"}
\* customMaxAge as passed: <<>> when omitted, <<n>> when given
TtlArgs == {<<>>, <<0>>, <<1>>}

Null == "null"
NoKey == "<none>"

----------------------------------------------------------------------------
(* Generic helpers for partial maps and insertion-ordered sets *)

Put(f, k, v) == [x \in (DOMAIN f) \cup {k} |-> IF x = k THEN v ELSE f[x]]
Drop(f, k) == [x \in (DOMAIN f) \ {k} |-> f[x]]
EmptyMap == [x \in {} |-> Null]
Without(s, k) == SelectSeq(s, LAMBDA x: x # k)
Range(s) == {s[i] : i \in DOMAIN s}
IndexOf(s, k) == CHOOSE i \in DOMAIN s : s[i] = k

----------------------------------------------------------------------------
(* AdvancedCache *)

\* private updateAccessOrder(key): delete then add moves the key to the end
updateAccessOrderKeepPlace(order, key) ==
    IF key \in Range(order) THEN order ELSE Append(order, key)

updateAccessOrder(order, key) == Append(Without(order, key), key)

\* delete(key) on the pair (cache, accessOrder)
CacheDeleteKeepsOrder(c, key) ==
    [cache |-> Drop(c.cache, key), order |-> c.order]

CacheDelete(c, key) ==
    [cache |-> Drop(c.cache, key), order |-> Without(c.order, key)]

\* private cleanup(): every entry with now > expiresAt is deleted
Cleanup(c, t) ==
    LET live == {k \in DOMAIN c.cache : ~(t > c.cache[k].expiresAt)}
    IN [cache |-> [k \in live |-> c.cache[k]],
        order |-> SelectSeq(c.order, LAMBDA k: k \in live)]

\* customMaxAge || this.config.maxAge : undefined and 0 are falsy
EffectiveMaxAge(custom) ==
    IF custom # <<>> /\ custom[1] # 0 THEN custom[1] ELSE MaxAge

\* set(key, data, customMaxAge) at clock t
CacheSet(c, key, value, custom, t) ==
    LET swept == Cleanup(c, t)
        full == Cardinality(DOMAIN swept.cache) >= MaxSize
        \* accessOrder.values().next().value; `if (lruKey)` is false for
        \* undefined and for the empty string
        evict == full /\ swept.order # <<>> /\ Head(swept.order) # ""
        lruKey == IF evict THEN Head(swept.order) ELSE NoKey
        kept == IF evict THEN CacheDelete(swept, lruKey) ELSE swept
        item == [data |-> value, timestamp |-> t,
                 expiresAt |-> t + EffectiveMaxAge(custom), key |-> key]
    IN [cache |-> Put(kept.cache, key, item),
        order |-> updateAccessOrder(kept.order, key),
        evicted |-> lruKey]

\* get(key) at clock t
CacheGetStale(c, key, t) ==
    IF key \notin DOMAIN c.cache
    THEN [cache |-> c.cache, order |-> c.order, ret |-> Null, path |-> "miss"]
    ELSE [cache |-> c.cache, order |-> updateAccessOrder(c.order, key),
          ret |-> c.cache[key].data, path |-> "hit"]

CacheGet(c, key, t) ==
    IF key \notin DOMAIN c.cache
    THEN [cache |-> c.cache, order |-> c.order, ret |-> Null, path |-> "miss"]
    ELSE IF t > c.cache[key].expiresAt
         THEN [cache |-> Drop(c.cache, key), order |-> Without(c.order, key),
               ret |-> Null, path |-> "expired"]
         ELSE [cache |-> c.cache, order |-> updateAccessOrder(c.order, key),
               ret |-> c.cache[key].data, path |-> "hit"]

\* has(key) at clock t
CacheHas(c, key, t) ==
    IF key \notin DOMAIN c.cache
    THEN [cache |-> c.cache, order |-> c.order, ret |-> FALSE,
          path |-> "miss"]
    ELSE IF t > c.cache[key].expiresAt
         THEN [cache |-> Drop(c.cache, key), order |-> Without(c.order, key),
               ret |-> FALSE, path |-> "expired"]
         ELSE [cache |-> c.cache, order |-> c.order, ret |-> TRUE,
               path |-> "hit"]

\* data[key] = {...} on a plain object: assigning "__proto__" runs the
\* prototype setter and creates no own property
ObjAssign(obj, key, val) ==
    IF key = ProtoKey THEN obj ELSE Put(obj, key, val)

\* export() at clock t: the own properties of the returned Record
RECURSIVE ExportFrom(_, _, _, _)
ExportFrom(c, todo, t, acc) ==
    IF todo = {} THEN acc
    ELSE LET k == CHOOSE x \in todo : TRUE
             next == IF t <= c[k].expiresAt
                     THEN ObjAssign(acc, k, [data |-> c[k].data,
                                             timestamp |-> c[k].timestamp,
                                             expiresAt |-> c[k].expiresAt])
                     ELSE acc
         IN ExportFrom(c, todo \ {k}, t, next)

CacheExport(c, t) == ExportFrom(c, DOMAIN c, t, EmptyMap)

\* import(data) at clock t, Object.entries(data) being visited in `entries`
RECURSIVE CacheImport(_, _, _, _)
CacheImport(c, obj, entries, t) ==
    IF entries = <<>> THEN c
    ELSE LET k == Head(entries)
             item == obj[k]
             \* item.expiresAt && now <= item.expiresAt
             take == item.expiresAt # 0 /\ t <= item.expiresAt
             next == IF take
                     THEN [cache |-> Put(c.cache, k,
                                         [data |-> item.data,
                                          timestamp |-> item.timestamp,
                                          expiresAt |-> item.expiresAt,
                                          key |-> k]),
                           order |-> updateAccessOrder(c.order, k)]
                     ELSE c
         IN CacheImport(next, obj, Tail(entries), t)

\* the keys import(data) stores, in the order it stores them
Imported(obj, entries, t) ==
    SelectSeq(entries, LAMBDA k: obj[k].expiresAt # 0 /\ t <= obj[k].expiresAt)

\* the orders in which the keys of S can be enumerated
RECURSIVE Orderings(_)
Orderings(S) ==
    IF S = {} THEN {<<>>}
    ELSE UNION {{<<k>> \o rest : rest \in Orderings(S \ {k})} : k \in S}

RECURSIVE TouchAll(_, _)
TouchAll(order, ks) ==
    IF ks = <<>> THEN order
    ELSE TouchAll(Append(Without(order, Head(ks)), Head(ks)), Tail(ks))

This == [cache |-> cache, order |-> accessOrder]

\* one more public call on the cache; nothing outside the cache moves
Call == ops < MaxOps /\ ops' = ops + 1 /\ UNCHANGED <<optVars, wsVars, restVars>>

Tick ==
    /\ now < MaxTime
    /\ now' = now + 1
    /\ UNCHANGED <<optVars, wsVars, restVars>>
    /\ UNCHANGED <<cache, accessOrder, ret, op, evicted, snapshot, cache2,
                   touchGS, touchGSI, srcAtExport, ops>>

Set(key, value, custom) ==
    LET r == CacheSet(This, key, value, custom, now)
    IN /\ Call
       /\ cache' = r.cache
       /\ accessOrder' = r.order
       /\ evicted' = r.evicted
       /\ ret' = Null
       /\ op' = [name |-> "set", key |-> key, path |-> "stored"]
       /\ touchGS' = Append(Without(touchGS, key), key)
       /\ touchGSI' = Append(Without(touchGSI, key), key)
       /\ UNCHANGED <<now, snapshot, cache2, srcAtExport>>

Get(key) ==
    LET r == CacheGet(This, key, now)
    IN /\ Call
       /\ cache' = r.cache
       /\ accessOrder' = r.order
       /\ ret' = r.ret
       /\ op' = [name |-> "get", key |-> key, path |-> r.path]
       /\ evicted' = NoKey
       /\ touchGS' = IF r.ret # Null THEN Append(Without(touchGS, key), key)
                     ELSE touchGS
       /\ touchGSI' = IF r.ret # Null THEN Append(Without(touchGSI, key), key)
                      ELSE touchGSI
       /\ UNCHANGED <<now, snapshot, cache2, srcAtExport>>

Has(key) ==
    LET r == CacheHas(This, key, now)
    IN /\ Call
       /\ cache' = r.cache
       /\ accessOrder' = r.order
       /\ ret' = r.ret
       /\ op' = [name |-> "has", key |-> key, path |-> r.path]
       /\ evicted' = NoKey
       /\ UNCHANGED <<now, snapshot, cache2, touchGS, touchGSI, srcAtExport>>

Delete(key) ==
    LET r == CacheDelete(This, key)
    IN /\ Call
       /\ cache' = r.cache
       /\ accessOrder' = r.order
       /\ ret' = Null
       /\ op' = [name |-> "delete", key |-> key, path |-> "deleted"]
       /\ evicted' = NoKey
       /\ UNCHANGED <<now, snapshot, cache2, touchGS, touchGSI, srcAtExport>>

Clear ==
    /\ Call
    /\ cache' = EmptyMap
    /\ accessOrder' = <<>>
    /\ ret' = Null
    /\ op' = [name |-> "clear", key |-> NoKey, path |-> "cleared"]
    /\ evicted' = NoKey
    /\ UNCHANGED <<now, snapshot, cache2, touchGS, touchGSI, srcAtExport>>

GetAllKeys ==
    LET r == Cleanup(This, now)
    IN /\ Call
       /\ cache' = r.cache
       /\ accessOrder' = r.order
       /\ ret' = DOMAIN r.cache
       /\ op' = [name |-> "getAllKeys", key |-> NoKey, path |-> "swept"]
       /\ evicted' = NoKey
       /\ UNCHANGED <<now, snapshot, cache2, touchGS, touchGSI, srcAtExport>>

\* export(): reads the cache, changes nothing in it
Export ==
    /\ Call
    /\ snapshot' = CacheExport(cache, now)
    /\ srcAtExport' = [k \in {x \in DOMAIN cache : now <= cache[x].expiresAt}
                        |-> cache[k]]
    /\ ret' = Null
    /\ op' = [name |-> "export", key |-> NoKey, path |-> "exported"]
    /\ evicted' = NoKey
    /\ UNCHANGED <<now, cache, accessOrder, cache2, touchGS, touchGSI>>

\* the Records import() is called with: one or two keys, each entry already
\* expired or still live at the time of the call, written at clock 1
ImportItems == {[data |-> "v1", timestamp |-> 1, expiresAt |-> e] :
                e \in {x \in {now - 1, now + 1} : x >= 1}}
ImportData ==
    UNION {[S -> ImportItems] : S \in {T \in SUBSET Keys : Cardinality(T) <= 2}}

\* import(obj), Object.entries(obj) enumerating the keys in any order
Import(obj, entries) ==
    LET r == CacheImport(This, obj, entries, now)
        got == Imported(obj, entries, now)
    IN /\ Call
       /\ cache' = r.cache
       /\ accessOrder' = r.order
       /\ ret' = Null
       /\ op' = [name |-> "import", key |-> NoKey, path |-> "imported"]
       /\ evicted' = NoKey
       /\ touchGSI' = TouchAll(touchGSI, got)
       /\ UNCHANGED <<now, snapshot, cache2, touchGS, srcAtExport>>

\* new AdvancedCache().import(snapshot)
ImportFresh ==
    \E entries \in Orderings(DOMAIN snapshot) :
        LET r == CacheImport([cache |-> EmptyMap, order |-> <<>>], snapshot,
                             entries, now)
        IN /\ Call
           /\ cache2' = r.cache
           /\ ret' = Null
           /\ op' = [name |-> "importFresh", key |-> NoKey,
                     path |-> "imported"]
           /\ evicted' = NoKey
           /\ UNCHANGED <<now, cache, accessOrder, snapshot, touchGS,
                          touchGSI, srcAtExport>>

----------------------------------------------------------------------------
(* useOptimisticUpdates<T>(initialData, keyExtractor) *)

MaxCalls == 3

ItemKeys == {"a", "b"}
\* an item of type T; keyExtractor(item) is item.id
Item(k, v) == [id |-> k, v |-> v]
keyExtractor(item) == item.id
NoItem == [id |-> NoKey, v |-> 0]
InitialLists == {<<>>, <<Item("a", 0)>>, <<Item("a", 0), Item("b", 0)>>}
\* what the UI writes optimistically, and what the server answers
EditValues == {1, 2}
ServerValues == {3}
NoSettlement == [kind |-> "none", key |-> NoKey, outcome |-> "none",
                 before |-> <<>>, clean |-> TRUE, base |-> NoItem,
                 pair |-> "none", peer |-> "none", solo |-> TRUE]

\* list.find(item => keyExtractor(item) === key), NoItem for undefined
Find(list, key) ==
    IF \E i \in DOMAIN list : keyExtractor(list[i]) = key
    THEN list[CHOOSE i \in DOMAIN list :
                /\ keyExtractor(list[i]) = key
                /\ \A j \in 1..(i - 1) : keyExtractor(list[j]) # key]
    ELSE NoItem

\* prev.map(item => keyExtractor(item) === key ? repl : item)
MapReplace(list, key, repl) ==
    [i \in DOMAIN list |-> IF keyExtractor(list[i]) = key THEN repl
                           ELSE list[i]]

\* prev.filter(item => keyExtractor(item) !== key)
FilterOut(list, key) == SelectSeq(list, LAMBDA item: keyExtractor(item) # key)

\* every other in-flight operation has seen one more setData applied
Disturb(pending) ==
    [i \in DOMAIN pending |-> [pending[i] EXCEPT !.clean = FALSE]]

RemoveAt(sq, i) == [j \in 1..(Len(sq) - 1) |-> IF j < i THEN sq[j] ELSE sq[j + 1]]

\* a call from UI code: the callbacks in use are those of the last render
UiCall ==
    /\ calls < MaxCalls
    /\ calls' = calls + 1
    /\ settled' = NoSettlement
    /\ UNCHANGED <<rendered, unhandled, callerErrors, cacheVars, wsVars,
                   restVars>>

\* the promise chain serverOperation().then(..).catch(..) is an expression
\* statement and the callback returns nothing: no caller holds the chain
Dispatch(kind, key, original, before) ==
    [kind |-> kind, key |-> key, originalItem |-> original,
     before |-> before, clean |-> TRUE, heldByCaller |-> FALSE,
     \* history: the item under the key before the call, and how the call
     \* overlaps other calls on the same key (filled in by Track)
     base |-> Find(before, key), pair |-> "none", peer |-> "none",
     solo |-> TRUE]

\* history kept with the pending operations: an update dispatched while
\* exactly one other update of the same key is pending forms a pair with it
\* ("first", "second") and takes over its base; any other overlap on the key
\* marks the operations as not solo
Track(pending, new) ==
    LET same == {i \in DOMAIN pending : pending[i].key = new.key}
        pairs == /\ new.kind = "update"
                 /\ Cardinality(same) = 1
                 /\ \A i \in same : /\ pending[i].kind = "update"
                                    /\ pending[i].pair = "none"
                                    /\ pending[i].solo
        marked == [i \in DOMAIN pending |->
                      IF i \notin same THEN pending[i]
                      ELSE IF pairs
                           THEN [pending[i] EXCEPT !.pair = "first",
                                                   !.peer = "pending"]
                           ELSE [pending[i] EXCEPT !.solo = FALSE]]
        rec == IF pairs
               THEN [new EXCEPT !.pair = "second", !.peer = "pending",
                                !.base = pending[CHOOSE i \in same : TRUE].base]
               ELSE [new EXCEPT !.solo = (same = {})]
    IN Append(marked, rec)

\* history: the operations still pending once operation i has settled; its
\* partner learns the outcome, any other operation on the key is not solo
Settled(pending, i, outcome) ==
    LET o == pending[i]
        rest == RemoveAt(pending, i)
    IN [j \in DOMAIN rest |->
           IF rest[j].key # o.key THEN rest[j]
           ELSE IF o.pair # "none" /\ rest[j].pair # "none"
                THEN [rest[j] EXCEPT !.peer = outcome]
                ELSE [rest[j] EXCEPT !.solo = FALSE]]

\* what a settlement handler does to the tracked operations:
\* newMap.delete(key)
SettleTrackedKeeps(tracked, key) == tracked

SettleTracked(tracked, key) == Drop(tracked, key)

optimisticCreate(newItem) ==
    LET key == keyExtractor(newItem)
    IN /\ UiCall
       /\ data' = Append(data, newItem)
       /\ optimisticOperations' =
              Put(optimisticOperations, key,
                  [type |-> "create", originalData |-> NoItem,
                   newData |-> newItem])
       /\ inflight' = Track(Disturb(inflight),
                            Dispatch("create", key, NoItem, data))

optimisticUpdate(updatedItem) ==
    LET key == keyExtractor(updatedItem)
        \* `data` of the render the callback was created in
        originalItem == Find(rendered, key)
    IN /\ UiCall
       /\ IF originalItem = NoItem
          THEN UNCHANGED <<data, optimisticOperations, inflight>>
          ELSE /\ data' = MapReplace(data, key, updatedItem)
               /\ optimisticOperations' =
                      Put(optimisticOperations, key,
                          [type |-> "update", originalData |-> originalItem,
                           newData |-> updatedItem])
               /\ inflight' = Track(Disturb(inflight),
                                    Dispatch("update", key, originalItem,
                                             data))

optimisticDelete(itemKey) ==
    LET originalItem == Find(rendered, itemKey)
    IN /\ UiCall
       /\ IF originalItem = NoItem
          THEN UNCHANGED <<data, optimisticOperations, inflight>>
          ELSE /\ data' = FilterOut(data, itemKey)
               /\ optimisticOperations' =
                      Put(optimisticOperations, itemKey,
                          [type |-> "delete", originalData |-> originalItem,
                           newData |-> NoItem])
               /\ inflight' = Track(Disturb(inflight),
                                    Dispatch("delete", itemKey, originalItem,
                                             data))

\* React commits the queued state updates and re-creates the callbacks
Render ==
    /\ rendered # data
    /\ rendered' = data
    /\ settled' = NoSettlement
    /\ UNCHANGED <<data, optimisticOperations, inflight, unhandled,
                   callerErrors, calls, cacheVars, wsVars, restVars>>

\* a settlement arrives from the network, after React has re-rendered
Settling(i, outcome) ==
    /\ i \in DOMAIN inflight
    /\ rendered = data
    /\ inflight' = Disturb(Settled(inflight, i, outcome))
    /\ optimisticOperations' =
           SettleTracked(optimisticOperations, inflight[i].key)
    /\ settled' = [kind |-> inflight[i].kind, key |-> inflight[i].key,
                   outcome |-> outcome, before |-> inflight[i].before,
                   clean |-> inflight[i].clean, base |-> inflight[i].base,
                   pair |-> inflight[i].pair, peer |-> inflight[i].peer,
                   solo |-> inflight[i].solo]
    /\ UNCHANGED <<rendered, calls, cacheVars, wsVars, restVars>>

\* .then(serverResult => ...)
Resolve(i, serverResult) ==
    /\ Settling(i, "resolved")
    /\ data' = IF inflight[i].kind = "delete" THEN data
               ELSE MapReplace(data, inflight[i].key, serverResult)
    /\ UNCHANGED <<unhandled, callerErrors>>

\* .catch(error => { ...; throw error })
Reject(i) ==
    LET o == inflight[i]
        thrown == [kind |-> o.kind, key |-> o.key]
    IN /\ Settling(i, "rejected")
       /\ data' = CASE o.kind = "create" -> FilterOut(data, o.key)
                    [] o.kind = "update" ->
                        MapReplace(data, o.key, o.originalItem)
                    [] o.kind = "delete" -> Append(data, o.originalItem)
       \* the re-thrown error rejects the promise .catch() returned
       /\ IF o.heldByCaller
          THEN callerErrors' = callerErrors \cup {thrown}
               /\ UNCHANGED unhandled
          ELSE unhandled' = unhandled \cup {thrown}
               /\ UNCHANGED callerErrors

----------------------------------------------------------------------------
(* WebSocketService *)

Sockets == {"s1", "s2", "s3"}
OrderIds == {"o1", "o2"}
UserIds == {"u1"}
\* the arrays broadcastBulkUpdate is called with
BulkArrays == {<<>>, <<"o1">>, <<"o1", "o2">>}

AuthRoom == "authenticated_users"
\* `order_${orderId}`
OrderRoom(orderId) == "order_" \o orderId
AllRooms == {AuthRoom} \cup {OrderRoom(o) : o \in OrderIds}

Msg(to, event, orderId) == [to |-> to, event |-> event, orderId |-> orderId]

\* socket.join(room) / socket.leave(room)
Join(rs, c, room) == [rs EXCEPT ![room] = @ \cup {c}]
Leave(rs, c, room) == [rs EXCEPT ![room] = @ \ {c}]
\* socket.io takes a closing socket out of every room before it emits
\* 'disconnect'
LeaveAll(rs, c) == [r \in DOMAIN rs |-> rs[r] \ {c}]

\* io.to(room).emit(event, ..): one message to every socket now in the room
EmitTo(rs, room, event, orderId) ==
    {Msg(c, event, orderId) : c \in rs[room]}

\* const socket = this.connectedUsers.get(socketId); if (socket) socket.emit
EmitToUser(users, c, event) ==
    IF c \in users THEN {Msg(c, event, NoKey)} ELSE {}

\* the (room, event) pairs broadcastOrderUpdate(orderUpdate) emits, the last
\* one through broadcastNotification
OrderUpdateEmitsAllToAuth(orderId) ==
    {[room |-> AuthRoom, event |-> "order_update"],
     [room |-> AuthRoom, event |-> "order_detail_update"],
     [room |-> AuthRoom, event |-> "notification"]}

OrderUpdateEmits(orderId) ==
    {[room |-> AuthRoom, event |-> "order_update"],
     [room |-> OrderRoom(orderId), event |-> "order_detail_update"],
     [room |-> AuthRoom, event |-> "notification"]}

\* socket.on('disconnect'): what the handler leaves in the two maps
OnDisconnectKeepsSession(users, sessions, c) ==
    [connectedUsers |-> users \ {c}, userSessions |-> sessions]

OnDisconnect(users, sessions, c) ==
    [connectedUsers |-> users \ {c}, userSessions |-> Drop(sessions, c)]

WsStep(name, orderId) ==
    /\ wsOp' = [name |-> name, orderId |-> orderId]
    /\ UNCHANGED <<cacheVars, optVars, restVars>>

\* io.on('connection'): a client's transport connects
Connect(c) ==
    /\ sockets[c] = "new"
    /\ sockets' = [sockets EXCEPT ![c] = "open"]
    /\ delivered' = {}
    /\ WsStep("connection", NoKey)
    /\ UNCHANGED <<rooms, connectedUsers, userSessions, joined, authed,
                   closedFrom, missed>>

\* what the authenticate handler sends to the socket: the welcome
\* notification (sendNotificationToUser), then sendSystemStats
AuthenticateEmitsReplay(users, c) ==
    EmitToUser(users, c, "notification") \cup EmitToUser(users, c, "system_stats")
        \cup {Msg(c, "order_update", o) : o \in OrderIds}

AuthenticateEmits(users, c) ==
    EmitToUser(users, c, "notification") \cup EmitToUser(users, c, "system_stats")

\* socket.on('authenticate')
Authenticate(c, userId) ==
    /\ sockets[c] = "open"
    /\ connectedUsers' = connectedUsers \cup {c}
    /\ userSessions' = Put(userSessions, c, userId)
    /\ rooms' = Join(rooms, c, AuthRoom)
    /\ delivered' = AuthenticateEmits(connectedUsers', c)
    /\ authed' = authed \cup {c}
    /\ WsStep("authenticate", NoKey)
    /\ UNCHANGED <<sockets, joined, closedFrom, missed>>

\* socket.on('join_order_room')
JoinOrderRoom(c, orderId) ==
    /\ sockets[c] = "open"
    /\ rooms' = Join(rooms, c, OrderRoom(orderId))
    /\ delivered' = {}
    /\ joined' = [joined EXCEPT ![c] = @ \cup {orderId}]
    /\ WsStep("join_order_room", orderId)
    /\ UNCHANGED <<sockets, connectedUsers, userSessions, authed, closedFrom,
                   missed>>

\* socket.on('leave_order_room')
LeaveOrderRoom(c, orderId) ==
    /\ sockets[c] = "open"
    /\ rooms' = Leave(rooms, c, OrderRoom(orderId))
    /\ delivered' = {}
    /\ joined' = [joined EXCEPT ![c] = @ \ {orderId}]
    /\ WsStep("leave_order_room", orderId)
    /\ UNCHANGED <<sockets, connectedUsers, userSessions, authed, closedFrom,
                   missed>>

\* the transport closes, then socket.on('disconnect') runs
Disconnect(c) ==
    LET r == OnDisconnect(connectedUsers, userSessions, c)
    IN /\ sockets[c] = "open"
       /\ sockets' = [sockets EXCEPT ![c] = "closed"]
       /\ rooms' = LeaveAll(rooms, c)
       /\ connectedUsers' = r.connectedUsers
       /\ userSessions' = r.userSessions
       /\ delivered' = {}
       /\ joined' = [joined EXCEPT ![c] = {}]
       /\ authed' = authed \ {c}
       /\ closedFrom' = Put(closedFrom, c, {r2 \in DOMAIN rooms : c \in rooms[r2]})
       /\ UNCHANGED missed
       /\ WsStep("disconnect", NoKey)

\* broadcastOrderUpdate(orderUpdate)
BroadcastOrderUpdate(orderId) ==
    /\ delivered' = UNION {EmitTo(rooms, e.room, e.event, orderId) :
                             e \in OrderUpdateEmits(orderId)}
    /\ missed' = missed \cup (Sockets \ rooms[AuthRoom])
    /\ WsStep("broadcastOrderUpdate", orderId)
    /\ UNCHANGED <<sockets, rooms, connectedUsers, userSessions, joined,
                   authed, closedFrom>>

\* the (room, event, payload) triples broadcastBulkUpdate(updates) emits
BulkUpdateEmitsPerOrder(updates) ==
    {[room |-> AuthRoom, event |-> "order_update", payload |-> updates[i]] :
        i \in DOMAIN updates}

BulkUpdateEmits(updates) ==
    {[room |-> AuthRoom, event |-> "bulk_order_update", payload |-> updates]}

\* broadcastBulkUpdate(updates)
BroadcastBulkUpdate(updates) ==
    /\ delivered' = UNION {EmitTo(rooms, e.room, e.event, e.payload) :
                             e \in BulkUpdateEmits(updates)}
    /\ WsStep("broadcastBulkUpdate", updates)
    /\ UNCHANGED <<sockets, rooms, connectedUsers, userSessions, joined,
                   authed, closedFrom, missed>>

----------------------------------------------------------------------------
(* OrderService (server): the event system and the CRUD calls *)

\* the listener that would forward an order event to the sockets
Broadcaster == "broadcastOrderUpdate"

\* private emit(event, data): the listeners it calls, in order
SvcEmit(listeners, event) ==
    IF event \in DOMAIN listeners THEN listeners[event] ELSE <<>>

\* what the listeners called for an order event send to the sockets
ListenersSend(called, rs, orderId) ==
    UNION {IF called[i] = Broadcaster
           THEN UNION {EmitTo(rs, e.room, e.event, orderId) :
                          e \in OrderUpdateEmits(orderId)}
           ELSE {} : i \in DOMAIN called}

\* one OrderService call: simulateProgress (its progressUpdate events go
\* through emit as well), the dataStore change, then emit(event) and
\* emit('metricsUpdated') when the call succeeded
SvcStep(name, orderId, ok, event) ==
    LET called == IF ok THEN SvcEmit(eventListeners, "progressUpdate")
                              \o SvcEmit(eventListeners, event)
                              \o SvcEmit(eventListeners, "metricsUpdated")
                  ELSE SvcEmit(eventListeners, "progressUpdate")
    IN /\ wsOp' = [name |-> name, orderId |-> orderId, ok |-> ok]
       /\ delivered' = ListenersSend(called, rooms, orderId)
       /\ UNCHANGED <<sockets, rooms, connectedUsers, userSessions, joined,
                      authed, closedFrom, missed, eventListeners>>
       /\ UNCHANGED <<cacheVars, optVars, feedVars, hookVars>>

\* createOrder(request): orderId = uuidv4() is a fresh id
CreateOrder(orderId) ==
    /\ orderId \notin orders
    /\ orders' = orders \cup {orderId}
    /\ SvcStep("createOrder", orderId, TRUE, "orderCreated")

\* updateOrder(orderId, updates): dataStore.updateOrder returns null for an
\* unknown id
UpdateOrder(orderId) ==
    /\ orders' = orders
    /\ SvcStep("updateOrder", orderId, orderId \in orders, "orderUpdated")

\* deleteOrder(orderId): dataStore.deleteOrder returns false for an unknown id
DeleteOrder(orderId) ==
    /\ orders' = orders \ {orderId}
    /\ SvcStep("deleteOrder", orderId, orderId \in orders, "orderDeleted")

----------------------------------------------------------------------------
(* useWebSocket: the notification and order_update handlers *)

MaxNotifications == 102
MaxOrderMsgs == 3

\* prev.slice(0, 99), prev.slice(0, 49) and 50 - updates.length
NotificationsKept == 99
OrderUpdatesKept == 49
BulkWindow == 50
\* the lengths of the arrays bulk_order_update arrives with
BulkLens == {0, 2, 51}

\* Array.prototype.slice(0, end): a negative end counts from the end
Slice0(list, end) ==
    LET n == Len(list)
        stop == IF end < 0 THEN (IF n + end < 0 THEN 0 ELSE n + end)
                ELSE (IF end > n THEN n ELSE end)
    IN SubSeq(list, 1, stop)

\* setNotifications(prev => [notification, ...prev.slice(0, 99)])
OnNotificationAppend(prev, notification) ==
    Slice0(prev, NotificationsKept) \o <<notification>>

OnNotification(prev, notification) ==
    <<notification>> \o Slice0(prev, NotificationsKept)

\* setOrderUpdates(prev => [update, ...prev.slice(0, 49)])
OnOrderUpdate(prev, update) == <<update>> \o Slice0(prev, OrderUpdatesKept)

\* setOrderUpdates(prev => [...updates, ...prev.slice(0, 50 - updates.length)])
OnBulkOrderUpdate(prev, updates) ==
    updates \o Slice0(prev, BulkWindow - Len(updates))

FeedStep == UNCHANGED <<cacheVars, optVars, wsVars, svcVars, hookVars>>

\* newSocket.on('notification')
ReceiveNotification ==
    /\ feedN < MaxNotifications
    /\ feedN' = feedN + 1
    /\ notifications' = OnNotification(notifications, feedN + 1)
    /\ UNCHANGED <<orderUpdates, feedU>>
    /\ FeedStep

\* newSocket.on('order_update')
ReceiveOrderUpdate ==
    /\ feedU < MaxOrderMsgs
    /\ feedU' = feedU + 1
    /\ orderUpdates' = OnOrderUpdate(orderUpdates, <<feedU + 1, 1>>)
    /\ UNCHANGED <<notifications, feedN>>
    /\ FeedStep

\* newSocket.on('bulk_order_update')
ReceiveBulkOrderUpdate(len) ==
    /\ feedU < MaxOrderMsgs
    /\ feedU' = feedU + 1
    /\ orderUpdates' = OnBulkOrderUpdate(orderUpdates,
                                         [i \in 1..len |-> <<feedU + 1, i>>])
    /\ UNCHANGED <<notifications, feedN>>
    /\ FeedStep

----------------------------------------------------------------------------
(* useWebSocket: connect, the retry timers, disconnect, room requests *)

MaxSockets == 2
MaxSocketFails == 1
MaxHookSteps == 6

maxReconnectAttempts == 5
reconnectDelay == 2000

ServerClose == "io server disconnect"
TransportClose == "transport close"
CloseReasons == {ServerClose, TransportClose}
\* the order the UI asks to watch
HookOrderIds == {"o1"}

RECURSIVE Pow2(_)
Pow2(n) == IF n = 0 THEN 1 ELSE 2 * Pow2(n - 1)

State(isConnected, isConnecting, error, reconnectAttempts) ==
    [isConnected |-> isConnected, isConnecting |-> isConnecting,
     error |-> error, reconnectAttempts |-> reconnectAttempts]

\* what a render hands to the callbacks it creates
Closure(st, sock) ==
    [isConnected |-> st.isConnected, isConnecting |-> st.isConnecting,
     reconnectAttempts |-> st.reconnectAttempts, socket |-> sock]

ToServer(i, event, arg) == [socket |-> i, event |-> event, arg |-> arg]

\* the body of connect() behind its guard: io(...) makes a socket whose
\* handlers keep the reconnectAttempts n of the connect() that made it
Open(n) ==
    /\ Len(cSockets) < MaxSockets
    /\ connectionState' = [connectionState EXCEPT !.isConnecting = TRUE,
                                                  !.error = Null]
    /\ cSockets' = Append(cSockets, [status |-> "connecting", n |-> n,
                                     fails |-> 0, buffer |-> {}])
    /\ hSocket' = Len(cSockets) + 1

HookStep(name, arg, by) ==
    /\ hOp' = [name |-> name, arg |-> arg]
    /\ hDirty' = by
    /\ IF name = "render" THEN hSteps' = hSteps
       ELSE hSteps < MaxHookSteps /\ hSteps' = hSteps + 1
    /\ UNCHANGED <<cacheVars, optVars, wsVars, svcVars, feedVars>>

\* UI code runs a callback of the last render; a second call in the same
\* handler still sees that render
UiReady == hDirty \in {"none", "ui"}
\* socket events and timers run as tasks of their own, after React has
\* re-rendered
TaskReady == hDirty = "none"

\* connect() called by UI code (the mount effect included)
UiConnect ==
    /\ UiReady
    /\ IF hRendered.isConnecting \/ hRendered.isConnected
       THEN /\ UNCHANGED <<connectionState, hSocket, cSockets>>
            /\ HookStep("connect", "guarded", hDirty)
       ELSE /\ Open(hRendered.reconnectAttempts)
            /\ HookStep("connect", "opened", "ui")
    /\ sent' = {}
    /\ userClosed' = FALSE
    /\ uiConnects' = IF uiConnects < 2 THEN uiConnects + 1 ELSE 2
    /\ UNCHANGED <<hRendered, timers, scheduled, terminal, everConnected>>

\* a timer callback may run once no timer set earlier is due before it
Due(j) ==
    /\ j \in DOMAIN timers
    /\ \A k \in 1..(j - 1) : timers[k].delay > timers[j].delay

RemoveTimer(j) ==
    [k \in 1..(Len(timers) - 1) |-> IF k < j THEN timers[k] ELSE timers[k + 1]]

\* setTimeout(() => connect(), ..) / setTimeout(connect, ..) fires: the
\* connect it calls is the one that made the socket, whose closure holds
\* isConnecting = isConnected = false and reconnectAttempts = n
TimerFire(j) ==
    /\ TaskReady
    /\ Due(j)
    /\ Open(timers[j].n)
    /\ timers' = RemoveTimer(j)
    /\ sent' = {}
    /\ HookStep("timer", timers[j].kind, "event")
    /\ UNCHANGED <<hRendered, scheduled, terminal, userClosed, everConnected,
                   uiConnects>>

\* newSocket.on('connect'); socket.io first sends what emit() buffered
\* while the socket was not connected
SockConnect(i) ==
    /\ TaskReady
    /\ i \in DOMAIN cSockets
    /\ cSockets[i].status = "connecting"
    /\ cSockets' = [cSockets EXCEPT ![i].status = "connected",
                                    ![i].buffer = {}]
    /\ connectionState' = State(TRUE, FALSE, Null, 0)
    /\ sent' = {ToServer(i, m.event, m.arg) : m \in cSockets[i].buffer}
                  \cup {ToServer(i, "authenticate", NoKey)}
    /\ everConnected' = TRUE
    /\ HookStep("sock_connect", NoKey, "event")
    /\ UNCHANGED <<hSocket, hRendered, timers, scheduled, terminal,
                   userClosed, uiConnects>>

\* the timers the connect_error handler of a socket made with n sets
ErrorSchedules(n) ==
    IF n < maxReconnectAttempts
    THEN <<[kind |-> "backoff", n |-> n, delay |-> reconnectDelay * Pow2(n),
            inRef |-> TRUE]>>
    ELSE <<>>

\* newSocket.on('connect_error'); with reconnection: true socket.io keeps
\* trying on the same socket until reconnectionAttempts is used up
SockConnectError(i) ==
    LET n == cSockets[i].n
        new == ErrorSchedules(n)
        fails == cSockets[i].fails + 1
    IN /\ TaskReady
       /\ i \in DOMAIN cSockets
       /\ cSockets[i].status = "connecting"
       /\ cSockets[i].fails < MaxSocketFails
       /\ connectionState' =
              [connectionState EXCEPT !.isConnecting = FALSE,
                                      !.error = "failed",
                                      !.reconnectAttempts = @ + 1]
       /\ timers' = IF new = <<>> THEN timers
                    ELSE [k \in DOMAIN timers |->
                             [timers[k] EXCEPT !.inRef = FALSE]] \o new
       /\ scheduled' = scheduled \o [k \in DOMAIN new |-> new[k].delay]
       /\ terminal' = (terminal \/ new = <<>>)
       /\ cSockets' = [cSockets EXCEPT
                          ![i].fails = fails,
                          ![i].status = IF fails > maxReconnectAttempts
                                        THEN "closed" ELSE "connecting"]
       /\ sent' = {}
       /\ HookStep("sock_connect_error", NoKey, "event")
       /\ UNCHANGED <<hSocket, hRendered, userClosed, everConnected,
                      uiConnects>>

\* the timers the disconnect handler of a socket made with n sets
DisconnectSchedulesAlways(reason, n) ==
    <<[kind |-> "server", n |-> n, delay |-> reconnectDelay,
       inRef |-> FALSE]>>

DisconnectSchedules(reason, n) ==
    IF reason = ServerClose
    THEN <<[kind |-> "server", n |-> n, delay |-> reconnectDelay,
            inRef |-> FALSE]>>
    ELSE <<>>

\* newSocket.on('disconnect'): after a server-side close socket.io leaves
\* the socket closed, after a transport loss it reconnects the same socket
SockDisconnect(i, reason) ==
    /\ TaskReady
    /\ i \in DOMAIN cSockets
    /\ cSockets[i].status = "connected"
    /\ connectionState' =
           [connectionState EXCEPT
               !.isConnected = FALSE, !.isConnecting = FALSE,
               !.error = IF reason = ServerClose THEN "Server disconnected"
                         ELSE Null]
    /\ timers' = timers \o DisconnectSchedules(reason, cSockets[i].n)
    /\ cSockets' = [cSockets EXCEPT
                       ![i].status = IF reason = ServerClose THEN "closed"
                                     ELSE "connecting"]
    /\ sent' = {}
    /\ HookStep("sock_disconnect", reason, "event")
    /\ UNCHANGED <<hSocket, hRendered, scheduled, terminal, userClosed,
                   everConnected, uiConnects>>

\* disconnect() called by UI code: clearTimeout(reconnectTimeoutRef.current),
\* socket.disconnect() on the socket of the last render, state reset
UiDisconnect ==
    LET rs == hRendered.socket
    IN /\ UiReady
       /\ timers' = SelectSeq(timers, LAMBDA t: ~t.inRef)
       /\ IF rs # 0
          THEN /\ cSockets' = [cSockets EXCEPT ![rs].status = "closed",
                                               ![rs].buffer = {}]
               /\ hSocket' = 0
          ELSE UNCHANGED <<cSockets, hSocket>>
       /\ connectionState' = State(FALSE, FALSE, Null, 0)
       /\ sent' = {}
       /\ userClosed' = TRUE
       /\ HookStep("disconnect", NoKey, "ui")
       /\ UNCHANGED <<hRendered, scheduled, terminal, everConnected,
                      uiConnects>>

\* joinOrderRoom(orderId) / leaveOrderRoom(orderId) called by UI code:
\* socket.emit sends on a connected socket and buffers on any other
UiRoom(event, orderId) ==
    LET rs == hRendered.socket
        go == rs # 0 /\ hRendered.isConnected
        live == go /\ cSockets[rs].status = "connected"
        \* a closed socket is never connected again: what it buffers is lost
        held == go /\ cSockets[rs].status = "connecting"
    IN /\ UiReady
       /\ sent' = IF live THEN {ToServer(rs, event, orderId)} ELSE {}
       /\ cSockets' = IF held
                      THEN [cSockets EXCEPT ![rs].buffer =
                               @ \cup {[event |-> event, arg |-> orderId]}]
                      ELSE cSockets
       /\ HookStep(event, orderId, hDirty)
       /\ UNCHANGED <<connectionState, hSocket, hRendered, timers, scheduled,
                      terminal, userClosed, everConnected, uiConnects>>

UiJoinOrderRoom(orderId) == UiRoom("join_order_room", orderId)
UiLeaveOrderRoom(orderId) == UiRoom("leave_order_room", orderId)

\* React re-renders: the callbacks are re-created over the current state
HookRender ==
    /\ hDirty # "none"
    /\ hRendered' = Closure(connectionState, hSocket)
    /\ sent' = {}
    /\ HookStep("render", NoKey, "none")
    /\ UNCHANGED <<connectionState, hSocket, cSockets, timers, scheduled,
                   terminal, userClosed, everConnected, uiConnects>>

----------------------------------------------------------------------------
(* Initial states and specifications *)

\* the hook's first render
InitHookIdle ==
    /\ connectionState = State(FALSE, FALSE, Null, 0)
    /\ hSocket = 0
    /\ hRendered = Closure(connectionState, 0)
    /\ hDirty = "none"
    /\ cSockets = <<>>
    /\ timers = <<>>
    /\ sent = {}
    /\ hOp = [name |-> "new", arg |-> NoKey]
    /\ scheduled = <<>>
    /\ terminal = FALSE
    /\ userClosed = FALSE
    /\ everConnected = FALSE
    /\ uiConnects = 0
    /\ hSteps = 0

\* useState<NotificationMessage[]>([]), useState<OrderUpdate[]>([])
InitFeedIdle ==
    /\ notifications = <<>>
    /\ orderUpdates = <<>>
    /\ feedN = 0
    /\ feedU = 0

InitCacheVars ==
    /\ now = 1
    /\ cache = EmptyMap
    /\ accessOrder = <<>>
    /\ ret = Null
    /\ op = [name |-> "new", key |-> NoKey, path |-> "new"]
    /\ evicted = NoKey
    /\ snapshot = EmptyMap
    /\ cache2 = EmptyMap
    /\ touchGS = <<>>
    /\ touchGSI = <<>>
    /\ srcAtExport = EmptyMap
    /\ ops = 0

InitOptIdle ==
    /\ data = <<>>
    /\ rendered = <<>>
    /\ optimisticOperations = EmptyMap
    /\ inflight = <<>>
    /\ unhandled = {}
    /\ callerErrors = {}
    /\ settled = NoSettlement
    /\ calls = 0

InitWsIdle ==
    /\ sockets = [c \in Sockets |-> "new"]
    /\ rooms = [r \in AllRooms |-> {}]
    /\ connectedUsers = {}
    /\ userSessions = EmptyMap
    /\ delivered = {}
    /\ wsOp = [name |-> "new", orderId |-> NoKey]
    /\ joined = [c \in Sockets |-> {}]
    /\ authed = {}
    /\ closedFrom = EmptyMap
    /\ missed = {}

\* new OrderService(): server.ts constructs no WebSocketService and nothing
\* calls addEventListener
InitSvcIdle ==
    /\ orders = {}
    /\ eventListeners = EmptyMap
    /\ InitFeedIdle
    /\ InitHookIdle

InitCache == InitCacheVars /\ InitOptIdle /\ InitWsIdle /\ InitSvcIdle

\* one cache used through set/get/has/delete/clear/getAllKeys/import
NextCache ==
    \/ Tick
    \/ \E k \in Keys, c \in TtlArgs : Set(k, "v1", c)
    \/ \E k \in Keys : Get(k)
    \/ \E k \in Keys : Has(k)
    \/ \E k \in Keys : Delete(k)
    \/ Clear
    \/ GetAllKeys
    \/ \E obj \in ImportData : \E entries \in Orderings(DOMAIN obj) :
           Import(obj, entries)

SpecCache == InitCache /\ [][NextCache]_vars

\* a cache that is filled, exported, and imported into a fresh instance
SnapKeys == {"a", ProtoKey}

NextSnap ==
    \/ Tick
    \/ \E k \in SnapKeys, v \in Values, c \in TtlArgs : Set(k, v, c)
    \/ \E k \in SnapKeys : Delete(k)
    \/ Export
    \/ ImportFresh

SpecSnap == InitCache /\ [][NextSnap]_vars

InitOpt ==
    /\ InitCacheVars
    /\ InitWsIdle
    /\ InitSvcIdle
    /\ data \in InitialLists
    /\ rendered = data
    /\ optimisticOperations = EmptyMap
    /\ inflight = <<>>
    /\ unhandled = {}
    /\ callerErrors = {}
    /\ settled = NoSettlement
    /\ calls = 0

NextOpt ==
    \/ \E k \in ItemKeys, v \in EditValues : optimisticCreate(Item(k, v))
    \/ \E k \in ItemKeys, v \in EditValues : optimisticUpdate(Item(k, v))
    \/ \E k \in ItemKeys : optimisticDelete(k)
    \/ Render
    \/ \E i \in DOMAIN inflight, k \in ItemKeys, v \in ServerValues :
           k = inflight[i].key /\ Resolve(i, Item(k, v))
    \/ \E i \in DOMAIN inflight : Reject(i)

SpecOpt == InitOpt /\ [][NextOpt]_vars

\* some pending serverOperation settles
SettleSome ==
    \E i \in DOMAIN inflight :
        \/ Reject(i)
        \/ \E k \in ItemKeys, v \in ServerValues :
               k = inflight[i].key /\ Resolve(i, Item(k, v))

\* a hook that starts with one item; the UI writes one value
InitOptLive == InitOpt /\ data = <<Item("a", 0)>>

NextOptLive ==
    \/ \E k \in ItemKeys : optimisticCreate(Item(k, 1))
    \/ \E k \in ItemKeys : optimisticUpdate(Item(k, 1))
    \/ \E k \in ItemKeys : optimisticDelete(k)
    \/ Render
    \/ \E i \in DOMAIN inflight, k \in ItemKeys, v \in ServerValues :
           k = inflight[i].key /\ Resolve(i, Item(k, v))
    \/ \E i \in DOMAIN inflight : Reject(i)

\* the hook when React always commits queued updates and every dispatched
\* serverOperation settles in the end
SpecOptLive ==
    InitOptLive /\ [][NextOptLive]_vars /\ WF_vars(Render) /\ WF_vars(SettleSome)

InitWs == InitCacheVars /\ InitOptIdle /\ InitWsIdle /\ InitSvcIdle

NextWs ==
    \/ \E c \in Sockets : Connect(c)
    \/ \E c \in Sockets, u \in UserIds : Authenticate(c, u)
    \/ \E c \in Sockets, o \in OrderIds : JoinOrderRoom(c, o)
    \/ \E c \in Sockets, o \in OrderIds : LeaveOrderRoom(c, o)
    \/ \E c \in Sockets : Disconnect(c)
    \/ \E o \in OrderIds : BroadcastOrderUpdate(o)
    \/ \E updates \in BulkArrays : BroadcastBulkUpdate(updates)

SpecWs == InitWs /\ [][NextWs]_vars

\* the server as server.ts starts it: OrderService behind the routes, and
\* clients of the socket server
NextServer ==
    \/ \E c \in Sockets : Connect(c)
    \/ \E c \in Sockets, u \in UserIds : Authenticate(c, u)
    \/ \E c \in Sockets : Disconnect(c)
    \/ \E o \in OrderIds : CreateOrder(o)
    \/ \E o \in OrderIds : UpdateOrder(o)
    \/ \E o \in OrderIds : DeleteOrder(o)

SpecServer == InitWs /\ [][NextServer]_vars

\* one connected socket of the hook receiving messages
NextFeed ==
    \/ ReceiveNotification
    \/ ReceiveOrderUpdate
    \/ \E len \in BulkLens : ReceiveBulkOrderUpdate(len)

SpecFeed == InitWs /\ [][NextFeed]_vars

\* one mounted useWebSocket hook, its sockets and timers
NextHook ==
    \/ UiConnect
    \/ UiDisconnect
    \/ \E o \in HookOrderIds : UiJoinOrderRoom(o)
    \/ \E o \in HookOrderIds : UiLeaveOrderRoom(o)
    \/ HookRender
    \/ \E j \in DOMAIN timers : TimerFire(j)
    \/ \E i \in DOMAIN cSockets : SockConnect(i)
    \/ \E i \in DOMAIN cSockets : SockConnectError(i)
    \/ \E i \in DOMAIN cSockets, reason \in CloseReasons :
           SockDisconnect(i, reason)

SpecHook == InitWs /\ [][NextHook]_vars

----------------------------------------------------------------------------
(* AdvancedCache: properties *)

\* the step is a public call of the given name
Called(name) == ops' = ops + 1 /\ op'.name = name

\* the keys cleanup() leaves at clock t
Survivors(c, t) == {k \in DOMAIN c : ~(t > c[k].expiresAt)}

\* e comes before every other key of S in the recency order `touch`
OldestOf(touch, S, e) ==
    /\ e \in Range(touch)
    /\ \A s \in S \cap Range(touch) : IndexOf(touch, e) <= IndexOf(touch, s)

\* C1: a get(k) issued at a clock value strictly greater than the expiresAt
\* of k's current entry returns null, in every reachable state of the cache
\* (whatever calls, sweeps or none, came before).
C1_GetAfterExpiryIsAbsent ==
    [][\A k \in Keys :
          (Called("get") /\ op'.key = k /\ k \in DOMAIN cache
             /\ now > cache[k].expiresAt) => ret' = Null]_vars

\* C1 witness: a get found an entry still stored after its expiry (no sweep
\* had removed it) and returned null.
C1_Witness == op.name = "get" /\ op.path = "expired" /\ ret = Null

\* C2: after any public call the number of stored entries is at most
\* config.maxSize.
C2_SizeWithinMax == Cardinality(DOMAIN cache) <= MaxSize

\* C3 (as claimed): whenever set() evicts, the evicted entry is the
\* non-expired entry whose last successful get or set is the oldest.
C3_EvictsOldestGetOrSet ==
    [][(Called("set") /\ evicted' # NoKey)
          => OldestOf(touchGS, Survivors(cache, now), evicted')]_vars

\* C3 (amended): whenever set() evicts, the evicted entry is the non-expired
\* entry whose last successful get, set or import is the oldest; has() is
\* no touch and a successful get(k) makes k the most recently used.
C3_EvictsOldestTouched ==
    [][(Called("set") /\ evicted' # NoKey)
          => /\ evicted' \in Survivors(cache, now)
             /\ Survivors(cache, now) \subseteq Range(touchGSI)
             /\ OldestOf(touchGSI, Survivors(cache, now), evicted')]_vars

\* C3 witness: a set() on a full cache evicted another key, one that was
\* stored by import() and never had a get or set, while a key with a later
\* touch survived.
C3_Witness ==
    /\ op.name = "set"
    /\ evicted \notin {NoKey, op.key}
    /\ evicted \notin Range(touchGS)
    /\ evicted \in Range(touchGSI)
    /\ Cardinality(DOMAIN cache) = MaxSize
    /\ \E k \in DOMAIN cache : k # op.key

\* C4: export() followed by import() into a fresh cache, no expiry being
\* crossed in between, yields the non-expired keys of the source with the
\* same value, timestamp and expiresAt.
C4_RoundTrip ==
    (op.name = "importFresh"
       /\ \A k \in DOMAIN srcAtExport : now <= srcAtExport[k].expiresAt)
    => [k \in Survivors(cache2, now) |-> cache2[k]] = srcAtExport

\* C21: set(key, value, ttlOverride) stores expiresAt = now + ttlOverride
\* whenever a ttlOverride is given, 0 included, and now + config.maxAge only
\* when none is given.
C21_TtlOverrideIsUsed ==
    [][\A k \in Keys, c \in TtlArgs :
          Set(k, "v1", c)
          => cache'[k].expiresAt = now + (IF c = <<>> THEN MaxAge ELSE c[1])]_vars

\* C25: set(k, v) on a key that is present and not expired leaves every
\* other non-expired key in the cache, also at capacity.
C25_OverwriteKeepsOthers ==
    [][\A k \in Keys :
          (Called("set") /\ op'.key = k /\ k \in Survivors(cache, now))
          => Survivors(cache, now) \subseteq DOMAIN cache']_vars

\* C30: after every public call the keys of accessOrder are the keys of
\* cache, each once: every stored entry can be evicted and no removed key
\* stays in the recency order.
C30_OrderMatchesCache ==
    /\ Range(accessOrder) = DOMAIN cache
    /\ Len(accessOrder) = Cardinality(DOMAIN cache)

\* C30 witness: a set() on a full cache has evicted a key, which is gone
\* from both structures, while an imported key and the key just set are in
\* both.
C30_Witness ==
    /\ op.name = "set"
    /\ evicted \notin {NoKey, op.key}
    /\ evicted \notin DOMAIN cache
    /\ evicted \notin Range(accessOrder)
    /\ \E k \in DOMAIN cache : k \notin Range(touchGS) /\ k \in Range(accessOrder)
    /\ op.key \in Range(accessOrder)

----------------------------------------------------------------------------
(* useOptimisticUpdates: properties *)

\* the multiset of the items of a list
CountIn(list, item) == Cardinality({i \in DOMAIN list : list[i] = item})
SameItems(l1, l2) ==
    \A item \in Range(l1) \cup Range(l2) : CountIn(l1, item) = CountIn(l2, item)

\* C5: once the rejection handler of an optimisticUpdate has run, the item
\* stored under the key equals the item stored under it immediately before
\* that optimisticUpdate applied its change.
C5_UpdateRollbackRestores ==
    (settled.kind = "update" /\ settled.outcome = "rejected")
    => Find(data, settled.key) = Find(settled.before, settled.key)

\* C6: once the rejection handler of an optimisticDelete has run, the deleted
\* item is in local data again with its original value, and when no other
\* mutation was applied in between, the list holds exactly the items it held
\* before the delete.
C6_DeleteRollbackRestores ==
    (settled.kind = "delete" /\ settled.outcome = "rejected")
    => /\ Find(settled.before, settled.key) # NoItem
          => Find(settled.before, settled.key) \in Range(data)
       /\ settled.clean => SameItems(data, settled.before)

\* C7: if the serverOperation of an optimisticCreate rejects and no other
\* mutation was applied in between, local data equals local data as it was
\* before optimisticCreate was called.
C7_CreateRollbackRestores ==
    (settled.kind = "create" /\ settled.outcome = "rejected" /\ settled.clean)
    => data = settled.before

\* C8: when a serverOperation rejects, the failure reaches the code that
\* called the optimistic function, after the rollback and the removal of
\* the tracked operation.
C8_FailureReachesCaller ==
    settled.outcome = "rejected"
    => /\ [kind |-> settled.kind, key |-> settled.key] \in callerErrors
       /\ settled.key \notin DOMAIN optimisticOperations

\* C22: each settlement, success or failure, removes the tracked operation
\* of its key, and when every dispatched serverOperation settles in the end
\* a non-empty tracked-operation map becomes empty (hasOptimisticOperations
\* false) with nothing pending.
C22_TrackedEventuallyEmpty ==
    /\ [](settled.outcome # "none"
            => settled.key \notin DOMAIN optimisticOperations)
    /\ (optimisticOperations # EmptyMap)
          ~> (optimisticOperations = EmptyMap /\ inflight = <<>>)

\* C22 witness: operations were dispatched, one was rejected and the last
\* one resolved; nothing is pending and nothing is tracked.
C22_Witness ==
    /\ settled.outcome = "resolved"
    /\ unhandled # {}
    /\ inflight = <<>>
    /\ optimisticOperations = EmptyMap

\* C26: two optimisticUpdate calls on one key, the second dispatched while
\* the first is pending and no other operation touching the key: once both
\* have been rejected, in either order, the item under the key is the one
\* stored before the first update.
C26_BothRejectedRestores ==
    (settled.kind = "update" /\ settled.outcome = "rejected"
       /\ settled.pair # "none" /\ settled.peer = "rejected" /\ settled.solo)
    => Find(data, settled.key) = settled.base

\* C27: isOptimistic(key) is true as long as a serverOperation dispatched
\* for the key is pending.
C27_PendingIsOptimistic ==
    \A i \in DOMAIN inflight : inflight[i].key \in DOMAIN optimisticOperations

\* C29: optimisticUpdate and optimisticDelete on a key that is not in local
\* data change neither data nor the tracked operations and invoke no
\* serverOperation.
C29_MissingKeyIsNoOp ==
    [][\A k \in ItemKeys :
          ((optimisticDelete(k) \/ \E v \in EditValues : optimisticUpdate(Item(k, v)))
             /\ Find(data, k) = NoItem)
          => UNCHANGED <<data, optimisticOperations, inflight>>]_vars

----------------------------------------------------------------------------
(* WebSocketService: properties *)

Got(c, event) == \E m \in delivered : m.to = c /\ m.event = event

\* C9: broadcastOrderUpdate(u) delivers order_detail_update for u.orderId
\* to exactly the connections that joined order_<u.orderId> and have not
\* since left or disconnected, and order_update to every connection that is
\* in authenticated_users at call time.
C9_DetailToRoomMembersOnly ==
    wsOp.name = "broadcastOrderUpdate"
    => \A c \in Sockets :
          /\ Msg(c, "order_detail_update", wsOp.orderId) \in delivered
                <=> wsOp.orderId \in joined[c]
          /\ \A m \in delivered :
                (m.to = c /\ m.event = "order_detail_update")
                   => m.orderId = wsOp.orderId
          /\ c \in authed
                => Msg(c, "order_update", wsOp.orderId) \in delivered

\* C9 witness: one broadcast reached a room member as order_detail_update
\* and an authenticated non-member as order_update only.
C9_Witness ==
    /\ wsOp.name = "broadcastOrderUpdate"
    /\ \E c1, c2 \in Sockets :
          /\ Got(c1, "order_detail_update")
          /\ c2 \in authed /\ wsOp.orderId \notin joined[c2]
          /\ Got(c2, "order_update")
          /\ ~Got(c2, "order_detail_update")

\* C10: once the disconnect handler for c has run, c is in no room, in
\* neither connectedUsers nor userSessions, and no broadcast is delivered
\* to c.
C10_DisconnectedIsGone ==
    \A c \in Sockets :
        sockets[c] = "closed"
        => /\ \A r \in DOMAIN rooms : c \notin rooms[r]
           /\ c \notin connectedUsers
           /\ c \notin DOMAIN userSessions
           /\ \A m \in delivered : m.to # c

\* C10 witness: a socket that was in authenticated_users and in an order
\* room when it closed receives nothing of a later broadcast for that order,
\* which reaches another socket.
C10_Witness ==
    \E c \in Sockets :
        /\ sockets[c] = "closed"
        /\ wsOp.name = "broadcastOrderUpdate"
        /\ {AuthRoom, OrderRoom(wsOp.orderId)} \subseteq closedFrom[c]
        /\ delivered # {}

\* C15: broadcastBulkUpdate(updates) sends each member of
\* authenticated_users exactly one bulk_order_update carrying the whole
\* array, and no order_update, order_detail_update or notification; a
\* socket outside the room receives nothing.
C15_BulkIsOneMessage ==
    wsOp.name = "broadcastBulkUpdate"
    => \A c \in Sockets :
          {m \in delivered : m.to = c}
             = IF c \in authed
               THEN {Msg(c, "bulk_order_update", wsOp.orderId)}
               ELSE {}

\* C15 witness: a bulk update of two orders reached an authenticated socket
\* as one bulk_order_update while another open socket was not authenticated.
C15_Witness ==
    /\ wsOp.name = "broadcastBulkUpdate"
    /\ Len(wsOp.orderId) = 2
    /\ \E c1, c2 \in Sockets :
          /\ c1 \in authed /\ Got(c1, "bulk_order_update")
          /\ sockets[c2] = "open" /\ c2 \notin authed

\* C16: an order_update or notification is delivered only in the step of
\* its own broadcast and only to the sockets then in authenticated_users;
\* the only other notification is the welcome a socket gets when it
\* authenticates, which carries no order.  Nothing broadcast earlier is
\* delivered later.
C16_NoReplay ==
    \A m \in delivered :
        m.event \in {"order_update", "notification"}
        => \/ /\ wsOp.name = "broadcastOrderUpdate"
              /\ m.orderId = wsOp.orderId
              /\ m.to \in authed
           \/ /\ wsOp.name = "authenticate"
              /\ m.event = "notification"
              /\ m.orderId = NoKey
              /\ m.to \in authed

\* C16 witness: a socket that was outside authenticated_users during a
\* broadcast has now authenticated and received the welcome only.
C16_Witness ==
    /\ wsOp.name = "authenticate"
    /\ \E c \in missed \cap authed :
          /\ Got(c, "notification")
          /\ ~Got(c, "order_update")
          /\ ~Got(c, "order_detail_update")

\* C17: every successful createOrder, updateOrder or deleteOrder results in
\* an order_update delivered to every connection that is in
\* authenticated_users at that moment.
C17_MutationIsBroadcast ==
    (wsOp.name \in {"createOrder", "updateOrder", "deleteOrder"} /\ wsOp.ok)
    => \A c \in authed : Msg(c, "order_update", wsOp.orderId) \in delivered

\* C24: a socket that has never sent authenticate receives no order_update,
\* no order_detail_update and no notification, whatever rooms it asked to
\* join and whatever is broadcast.
C24_UnauthenticatedGetsNothing ==
    \A m \in delivered :
        m.event \in {"order_update", "order_detail_update", "notification"}
        => m.to \in authed

----------------------------------------------------------------------------
(* useWebSocket lists: properties *)

\* C19: after any sequence of received notifications the list holds at most
\* 100 entries, newest first; at a full list the oldest entry is dropped.
C19_NotificationsNewestFirst ==
    LET cap == NotificationsKept + 1
        n == IF feedN < cap THEN feedN ELSE cap
    IN /\ Len(notifications) <= cap
       /\ notifications = [i \in 1..n |-> feedN - i + 1]

\* C19 witness: more notifications arrived than the list holds; the list is
\* full and starts with the newest.
C19_Witness ==
    /\ feedN > NotificationsKept + 1
    /\ Len(notifications) = NotificationsKept + 1
    /\ Head(notifications) = feedN

\* C20: after any sequence of order_update and bulk_order_update messages
\* the orderUpdates list holds at most 50 entries.
C20_OrderUpdatesWithinWindow == Len(orderUpdates) <= BulkWindow

----------------------------------------------------------------------------
(* useWebSocket connection: properties *)

\* 2s, 4s, 8s, 16s, 32s
Backoff == [k \in 1..maxReconnectAttempts |-> reconnectDelay * Pow2(k - 1)]
IsPrefix(a, b) == Len(a) <= Len(b) /\ \A k \in DOMAIN a : a[k] = b[k]
RoomEvents == {"join_order_room", "leave_order_room"}

\* C11: starting from zero attempts, when every connection attempt fails,
\* the retries scheduled are 2s, 4s, 8s, 16s, 32s in that order, and the
\* terminal error is raised only after these five.
C11_BackoffSchedule ==
    (~everConnected /\ uiConnects <= 1 /\ ~userClosed)
    => /\ IsPrefix(scheduled, Backoff)
       /\ terminal => scheduled = Backoff

\* C12: a connect() call made while the state is Connecting or Connected,
\* by UI code or by a retry timer, opens no socket and leaves the connection
\* state unchanged.
C12_ConnectIsGuarded ==
    [][((UiConnect \/ \E j \in DOMAIN timers : TimerFire(j))
          /\ (connectionState.isConnecting \/ connectionState.isConnected))
       => (cSockets' = cSockets /\ connectionState' = connectionState)]_vars

\* C13: after disconnect() returns no reconnect timer is pending and the
\* attempt counter is 0, and no socket is opened until connect() is called
\* again.
C13_DisconnectCancelsAll ==
    [][/\ UiDisconnect
          => (timers' = <<>> /\ connectionState'.reconnectAttempts = 0)
       /\ (userClosed /\ userClosed') => Len(cSockets') = Len(cSockets)]_vars

\* C14: a join_order_room or leave_order_room message goes to the server
\* only in the step of a joinOrderRoom/leaveOrderRoom call for that order
\* made while the state is Connected; nothing is queued and sent later.
C14_RoomRequestsOnlyWhenConnected ==
    [][\A m \in sent' :
          m.event \in RoomEvents
          => /\ hOp'.name = m.event
             /\ hOp'.arg = m.arg
             /\ connectionState.isConnected]_vars

\* C18: the disconnect handler schedules exactly one reconnect, with the
\* plain reconnectDelay, when the reason is 'io server disconnect', and
\* schedules nothing for any other reason.
C18_ServerCloseSchedulesOnce ==
    [][\A i \in DOMAIN cSockets, reason \in CloseReasons :
          SockDisconnect(i, reason)
          => IF reason = ServerClose
             THEN /\ Len(timers') = Len(timers) + 1
                  /\ SubSeq(timers', 1, Len(timers)) = timers
                  /\ timers'[Len(timers')].kind = "server"
                  /\ timers'[Len(timers')].delay = reconnectDelay
             ELSE timers' = timers]_vars

\* the sockets of the hook whose transport is open or being opened
LiveSockets == {i \in DOMAIN cSockets :
                   cSockets[i].status \in {"connecting", "connected"}}

\* C23: the hook has at most one open or connecting socket at any time: a
\* retry after connect_error or a reconnect after a server disconnect opens
\* a socket only once the previous one is closed.  Stated for a hook whose
\* UI code has called connect() once, so that every further socket is one
\* a timer opened.
C23_OneLiveSocket == uiConnects <= 1 => Cardinality(LiveSockets) <= 1

\* C28: isConnected and isConnecting are never both true.
C28_NotConnectedAndConnecting ==
    ~(connectionState.isConnected /\ connectionState.isConnecting)

\* C18 witness: a socket opened after one failed attempt was closed by the
\* server and its reconnect is pending with the plain 2000 ms delay.
C18_Witness ==
    /\ hOp.name = "sock_disconnect"
    /\ hOp.arg = ServerClose
    /\ timers # <<>>
    /\ timers[Len(timers)].kind = "server"
    /\ timers[Len(timers)].n >= 1
    /\ timers[Len(timers)].delay = reconnectDelay

=============================================================================
